---- MODULE Spec2Model ----
(***************************************************************************)
(* Blender Pushover Notifier (src/BlenderPushoverNotifier.py).             *)
(*                                                                         *)
(* The add-on's entry points are modelled as a state machine:              *)
(*   - render_complete_handler  (the completion dispatcher),               *)
(*   - send_pushover_notification (the sender, run either in a background  *)
(*     thread started by the handler or on the main thread by the test     *)
(*     operator),                                                          *)
(*   - PUSHOVER_OT_TestNotification.poll / execute (the test operator),    *)
(*   - register / unregister (handler subscription).                       *)
(*                                                                         *)
(* Text is modelled at the character level where the code inspects it      *)
(* (the message template, the file path): a text is a tuple of one-        *)
(* character strings.  Finished messages are TLA+ strings.                 *)
(***************************************************************************)
EXTENDS Integers, Sequences, FiniteSets, Bags, TLC

(***************************************************************************)
(* Text helpers.                                                           *)
(***************************************************************************)

\* str of a character tuple, as one string.
RECURSIVE Str(_)
Str(s) ==
    IF s = <<>> THEN "" ELSE Head(s) \o Str(Tail(s))

\* t[lo..hi] as a character tuple (empty when hi < lo).
Slice(t, lo, hi) ==
    IF hi < lo THEN <<>> ELSE SubSeq(t, lo, hi)

\* The first index i >= from with t[i] \in S, or Len(t)+1 when there is none.
RECURSIVE FindChar(_, _, _)
FindChar(t, from, S) ==
    IF from > Len(t) THEN Len(t) + 1
    ELSE IF t[from] \in S THEN from
    ELSE FindChar(t, from + 1, S)

\* The last index i with t[i] \in S, or 0 when there is none.
RECURSIVE FindLast(_, _, _)
FindLast(t, from, S) ==
    IF from < 1 THEN 0
    ELSE IF t[from] \in S THEN from
    ELSE FindLast(t, from - 1, S)

Digits == {"0", "1", "2", "3", "4", "5", "6", "7", "8", "9"}

DigitVal(c) ==
    CASE c = "0" -> 0 [] c = "1" -> 1 [] c = "2" -> 2 [] c = "3" -> 3
      [] c = "4" -> 4 [] c = "5" -> 5 [] c = "6" -> 6 [] c = "7" -> 7
      [] c = "8" -> 8 [] c = "9" -> 9

\* get_integer of the format machinery: the value of an all-digit text,
\* -1 for an empty text or one with a non-digit.
RECURSIVE IntAcc(_, _)
IntAcc(s, acc) ==
    IF s = <<>> THEN acc
    ELSE IF Head(s) \notin Digits THEN -1
    ELSE IntAcc(Tail(s), acc * 10 + DigitVal(Head(s)))

GetInteger(s) ==
    IF s = <<>> THEN -1 ELSE IntAcc(s, 0)

(***************************************************************************)
(* str.format(file=name), line 66, as CPython's formatter computes it with *)
(* no positional arguments and the single keyword argument "file".         *)
(* The result is [exc, text]: exc = "none" and text the formatted string,  *)
(* or exc the class of the exception raised (text its argument).           *)
(* exc = "Unmodelled" marks template features whose output is outside this *)
(* model (a conversion !r / !a, a non-empty format spec, an attribute that *)
(* str really has); no template used below reaches it.                     *)
(***************************************************************************)

Ok(text) == [exc |-> "none", text |-> text]
Raise(cls, arg) == [exc |-> cls, text |-> arg]

\* The keyword arguments of the call on line 66.
FormatKwargs == {"file"}

\* parse_field's scan for the end of the field name, from position p:
\* "term" at the position of the terminating '}', ':' or '!',
\* "brace" for a '{' inside the name, "end" when the text runs out.
RECURSIVE ScanFieldName(_, _)
ScanFieldName(t, p) ==
    IF p > Len(t) THEN [kind |-> "end", pos |-> p]
    ELSE IF t[p] = "{" THEN [kind |-> "brace", pos |-> p]
    ELSE IF t[p] = "[" THEN
        LET q == FindChar(t, p + 1, {"]"})
        IN  IF q > Len(t) THEN [kind |-> "end", pos |-> q]
            ELSE ScanFieldName(t, q + 1)
    ELSE IF t[p] \in {"}", ":", "!"} THEN [kind |-> "term", pos |-> p]
    ELSE ScanFieldName(t, p + 1)

\* parse_field's scan of the format spec from position p with the given
\* count of open braces: the position of the closing '}', or 0.
RECURSIVE ScanSpec(_, _, _)
ScanSpec(t, p, count) ==
    IF p > Len(t) THEN 0
    ELSE IF t[p] = "{" THEN ScanSpec(t, p + 1, count + 1)
    ELSE IF t[p] = "}" THEN
        IF count = 1 THEN p ELSE ScanSpec(t, p + 1, count - 1)
    ELSE ScanSpec(t, p + 1, count)

\* parse_field from position k (just after the opening '{'):
\* [ok, name, conv, spec, next]; conv = "" when there is no conversion.
ParseField(t, k) ==
    LET bad  == [ok |-> FALSE, name |-> <<>>, conv |-> "", spec |-> <<>>, next |-> 0]
        scan == ScanFieldName(t, k)
        p    == scan.pos
        name == Slice(t, k, p - 1)
        WithSpec(conv, s) ==
            LET q == ScanSpec(t, s, 1)
            IN  IF q = 0 THEN bad
                ELSE [ok |-> TRUE, name |-> name, conv |-> conv,
                      spec |-> Slice(t, s, q - 1), next |-> q + 1]
    IN  IF scan.kind # "term" THEN bad
        ELSE IF t[p] = "}" THEN
            [ok |-> TRUE, name |-> name, conv |-> "", spec |-> <<>>, next |-> p + 1]
        ELSE IF t[p] = ":" THEN WithSpec("", p + 1)
        ELSE \* '!': a conversion character must follow
            IF p + 1 > Len(t) THEN bad
            ELSE IF p + 2 > Len(t) THEN WithSpec(t[p + 1], p + 2)
            ELSE IF t[p + 2] = "}" THEN
                [ok |-> TRUE, name |-> name, conv |-> t[p + 1], spec |-> <<>>,
                 next |-> p + 3]
            ELSE IF t[p + 2] # ":" THEN bad
            ELSE WithSpec(t[p + 1], p + 3)

\* Attributes a str object has, among the names the templates use.
StrAttrs == {"upper", "lower"}

\* FieldNameIterator over the rest of a field name (after its first part),
\* applied to the character tuple val: getattr for ".name", getitem for
\* "[key]".
RECURSIVE Accessors(_, _, _)
Accessors(fname, i, val) ==
    IF i > Len(fname) THEN [exc |-> "none", val |-> val]
    ELSE IF fname[i] = "." THEN
        LET e    == FindChar(fname, i + 1, {".", "["})
            attr == Slice(fname, i + 1, e - 1)
        IN  IF attr = <<>> THEN [exc |-> "ValueError", val |-> <<>>]
            ELSE IF Str(attr) \in StrAttrs THEN [exc |-> "Unmodelled", val |-> <<>>]
            ELSE [exc |-> "AttributeError", val |-> attr]
    ELSE IF fname[i] = "[" THEN
        LET e   == FindChar(fname, i + 1, {"]"})
            key == Slice(fname, i + 1, e - 1)
            idx == GetInteger(key)
        IN  IF e > Len(fname) THEN [exc |-> "ValueError", val |-> <<>>]
            ELSE IF key = <<>> THEN [exc |-> "ValueError", val |-> <<>>]
            ELSE IF idx = -1 THEN [exc |-> "TypeError", val |-> key]
            ELSE IF idx + 1 > Len(val) THEN [exc |-> "IndexError", val |-> key]
            ELSE Accessors(fname, e + 1, <<val[idx + 1]>>)
    ELSE [exc |-> "ValueError", val |-> <<>>]

\* get_field_object and render_field for one replacement field.
RenderField(field, name) ==
    LET e     == FindChar(field.name, 1, {".", "["})
        first == Slice(field.name, 1, e - 1)
    IN  IF first = <<>> \/ GetInteger(first) # -1
        THEN Raise("IndexError", Str(first))       \* positional, and args = ()
        ELSE IF Str(first) \notin FormatKwargs
        THEN Raise("KeyError", Str(first))
        ELSE
            LET obj == Accessors(field.name, e, name)
            IN  IF obj.exc # "none" THEN Raise(obj.exc, Str(obj.val))
                ELSE IF field.conv \notin {"", "r", "s", "a"}
                THEN Raise("ValueError", field.conv)
                ELSE IF field.conv \in {"r", "a"} \/ field.spec # <<>>
                THEN Raise("Unmodelled", "")
                ELSE Ok(Str(obj.val))

\* MarkupIterator_next / build_string: literal text up to the next brace,
\* then the replacement field that follows, left to right from position i.
RECURSIVE FormatFrom(_, _, _, _)
FormatFrom(t, i, name, acc) ==
    IF i > Len(t) THEN Ok(acc)
    ELSE
        LET j == FindChar(t, i, {"{", "}"})
        IN  IF j > Len(t) THEN Ok(acc \o Str(Slice(t, i, Len(t))))
            ELSE IF t[j] = "}" /\ (j = Len(t) \/ t[j + 1] # "}")
            THEN Raise("ValueError", "Single '}' encountered in format string")
            ELSE IF t[j] = "{" /\ j = Len(t)
            THEN Raise("ValueError", "Single '{' encountered in format string")
            ELSE IF t[j + 1] = t[j]
            THEN FormatFrom(t, j + 2, name, acc \o Str(Slice(t, i, j)))
            ELSE
                LET field == ParseField(t, j + 1)
                    lit   == acc \o Str(Slice(t, i, j - 1))
                IN  IF ~field.ok THEN Raise("ValueError", "bad replacement field")
                    ELSE
                        LET r == RenderField(field, name)
                        IN  IF r.exc # "none" THEN r
                            ELSE FormatFrom(t, field.next, name, lit \o r.text)

Format(t, name) ==
    FormatFrom(t, 1, name, "")

(***************************************************************************)
(* Bounds of the model.                                                    *)
(***************************************************************************)

\* Background threads alive at the same time.
MaxInFlight == 2

(***************************************************************************)
(* Values the host and the user can supply.                                *)
(***************************************************************************)

\* message_format's default, line 104.
DefaultFormat ==
    <<"B", "l", "e", "n", "d", "e", "r", " ", "r", "e", "n", "d", "e", "r", " ",
      "f", "i", "n", "i", "s", "h", "e", "d", " ", "f", "o", "r", ":", " ",
      "{", "f", "i", "l", "e", "}">>

T_Positional == <<"{", "0", "}">>

\* Templates the user types into the Message Format field.
Templates == {DefaultFormat, T_Positional}

P_Scene1 ==
    <<"/", "r", "/", "s", "c", "e", "n", "e", "1", ".", "b", "l", "e", "n", "d">>

\* bpy.context.blend_data.filepath: empty until the document is saved.
Filepaths == {<<>>, P_Scene1}

UserKeys == {"", "uKEY"}

ApiTokens == {"", "aTOKEN"}

\* What urlopen can do, line 37: return, or raise an exception whose str()
\* is one of these descriptions.
TransportErrors == {"HTTP Error 400: Bad Request", "<urlopen error timed out>"}

Outcomes == {"ok"} \cup TransportErrors

(***************************************************************************)
(* State.                                                                  *)
(***************************************************************************)
VARIABLES
    is_enabled,       \* PushoverNotifierProperties.is_enabled
    user_key,         \* PushoverNotifierProperties.user_key
    api_token,        \* PushoverNotifierProperties.api_token
    message_format,   \* PushoverNotifierProperties.message_format
    online_access,    \* bpy.app.online_access
    filepath,         \* bpy.context.blend_data.filepath
    handlers,         \* bpy.app.handlers.render_complete
    lastHandler,      \* how the latest call of the handler ended
    threads,          \* the live threads started on line 77 (a bag of calls)
    op,               \* the latest execute of the test operator
    console           \* stdout: whether it is shown, and the lines the latest
                      \* step printed on it

vars ==
    <<is_enabled, user_key, api_token, message_format, online_access, filepath,
      handlers, lastHandler, threads, op, console>>

config == <<is_enabled, user_key, api_token, message_format>>

HandlerName == "render_complete_handler"

\* The host started without a console window: what is printed is lost.
NoConsole == [open |-> FALSE, lines |-> <<>>]

\* The host started from a terminal: what is printed can be read.
OpenConsole == [open |-> TRUE, lines |-> <<>>]

\* stdout after a step that printed these lines.
Written(lines) ==
    [console EXCEPT !.lines = IF console.open THEN lines ELSE <<>>]

(***************************************************************************)
(* send_pushover_notification, lines 17-43.  One call of the sender is a   *)
(* record: its arguments, where it is (pc), how many requests it has       *)
(* handed to urlopen (calls), what urlopen did (outcome: "ok" or the       *)
(* description of the exception raised) and what the call returned.        *)
(***************************************************************************)

NoResult == [success |-> FALSE, msg |-> ""]

\* A call that has been set up and has not yet run line 22.
NewCall(u, a, m) ==
    [user_key |-> u, api_token |-> a, message |-> m, pc |-> "started",
     calls |-> 0, outcome |-> "", result |-> NoResult]

\* Mutant of CredsMissing: "and" in place of "or".
CredsMissing_Both(u, a) == u = "" /\ a = ""

\* line 22
CredsMissing(u, a) == u = "" \/ a = ""

\* lines 23-25
MissingResult == [success |-> FALSE, msg |-> "User Key or API Token not set."]

\* lines 38-39
SuccessResult == [success |-> TRUE, msg |-> "Notification sent successfully!"]

\* Mutant of FailureResult: the error description is dropped.
FailureResult_NoDescription(e) ==
    [success |-> FALSE, msg |-> "Failed to send notification."]

\* lines 40-43
FailureResult(e) ==
    [success |-> FALSE, msg |-> "Failed to send notification. Error: " \o e]

\* Mutant of SendBegin: the sender reads the credentials from the settings
\* when it runs, not from its arguments.
SendBegin_ReadsSettings(c) ==
    IF CredsMissing(user_key, api_token)
    THEN [c EXCEPT !.user_key = user_key, !.api_token = api_token,
                   !.pc = "done", !.result = MissingResult]
    ELSE [c EXCEPT !.user_key = user_key, !.api_token = api_token,
                   !.pc = "urlopen", !.calls = c.calls + 1]

\* Lines 22-37: the credential check; then either the early return or the
\* request handed to urlopen.
SendBegin(c) ==
    IF CredsMissing(c.user_key, c.api_token)
    THEN [c EXCEPT !.pc = "done", !.result = MissingResult]
    ELSE [c EXCEPT !.pc = "urlopen", !.calls = c.calls + 1]

\* Mutant of SendEnd: a request that failed is issued again.
SendEnd_Retry(c, outcome) ==
    IF outcome = "ok"
    THEN [c EXCEPT !.pc = "done", !.outcome = outcome, !.result = SuccessResult]
    ELSE [c EXCEPT !.pc = "urlopen", !.outcome = outcome, !.calls = c.calls + 1]

\* Lines 37-43: urlopen returned ("ok") or raised (its description).
SendEnd(c, outcome) ==
    [c EXCEPT !.pc = "done", !.outcome = outcome,
              !.result = IF outcome = "ok" THEN SuccessResult
                         ELSE FailureResult(outcome)]

\* Mutant of SendBeginPrints: the line of a refused call shows the
\* credentials it was given.
SendBeginPrints_ShowsCredentials(c) ==
    IF CredsMissing(c.user_key, c.api_token)
    THEN <<"Pushover Notifier: " \o MissingResult.msg
             \o " user=" \o c.user_key \o " token=" \o c.api_token>>
    ELSE <<>>

\* What lines 22-37 print: line 24.
SendBeginPrints(c) ==
    IF CredsMissing(c.user_key, c.api_token)
    THEN <<"Pushover Notifier: " \o MissingResult.msg>>
    ELSE <<>>

\* Mutant of SendEndPrints: the sender prints nothing about the outcome.
SendEndPrints_Silent(c, outcome) == <<>>

\* What lines 37-43 print: line 38 or line 42.
SendEndPrints(c, outcome) ==
    IF outcome = "ok"
    THEN <<"Pushover Notifier: Notification sent successfully.">>
    ELSE <<"Pushover Notifier: " \o FailureResult(outcome).msg>>

(***************************************************************************)
(* render_complete_handler, lines 46-77.                                   *)
(***************************************************************************)

UnsavedFile == <<"U", "n", "s", "a", "v", "e", "d", " ", "F", "i", "l", "e">>

\* bpy.path.basename: os.path.basename after dropping a leading "//".
Basename(path) ==
    LET p == IF Len(path) >= 2 /\ path[1] = "/" /\ path[2] = "/"
             THEN Slice(path, 3, Len(path)) ELSE path
    IN  Slice(p, FindLast(p, Len(p), {"/"}) + 1, Len(p))

\* Mutant of BlendFileName: no substitute for an unsaved document.
BlendFileName_NoUnsaved(path) == Basename(path)

\* lines 60-62
BlendFileName(path) ==
    IF Basename(path) = <<>> THEN UnsavedFile ELSE Basename(path)

\* line 70
FallbackMessage(name) ==
    "Blender render finished for: " \o Str(name) \o " (Message format error)"

\* Mutant of Caught: no except clause around format().
Caught_Nothing(exc) == FALSE

\* The exceptions of format() that line 67 catches.
Caught(exc) == exc = "KeyError"

\* lines 65-70: the message, or the exception that leaves the handler.
HandlerMessage(t, name) ==
    LET f == Format(t, name)
    IN  IF f.exc = "none" THEN f
        ELSE IF Caught(f.exc) THEN Ok(FallbackMessage(name))
        ELSE f

\* Mutant of NewThread: the sender is called on the spot, so the handler
\* returns with the call already past line 37.
NewThread_Inline(u, a, m) ==
    [NewCall(u, a, m) EXCEPT !.pc = "urlopen", !.calls = 1]

\* lines 76-77: the thread object; start() returns at once and the thread
\* has yet to run the sender.
NewThread(u, a, m) == NewCall(u, a, m)

\* Mutant of HandlerOutcome: the is_enabled check of lines 53-55 is missing.
HandlerOutcome_IgnoresEnabled ==
    IF ~online_access THEN [outcome |-> "offline", exc |-> "none"]
    ELSE LET m == HandlerMessage(message_format, BlendFileName(filepath))
         IN  IF m.exc = "none" THEN [outcome |-> "started", exc |-> "none"]
             ELSE [outcome |-> "raised", exc |-> m.exc]

\* Mutant of HandlerOutcome: the online_access check of lines 56-58 is
\* missing.
HandlerOutcome_IgnoresOnline ==
    IF ~is_enabled THEN [outcome |-> "disabled", exc |-> "none"]
    ELSE LET m == HandlerMessage(message_format, BlendFileName(filepath))
         IN  IF m.exc = "none" THEN [outcome |-> "started", exc |-> "none"]
             ELSE [outcome |-> "raised", exc |-> m.exc]

\* How a call of the handler ends, lines 51-77: "disabled" and "offline" are
\* the early returns, "raised" an exception escaping to the host, "started"
\* the return after thread.start().
HandlerOutcome ==
    IF ~is_enabled THEN [outcome |-> "disabled", exc |-> "none"]
    ELSE IF ~online_access THEN [outcome |-> "offline", exc |-> "none"]
    ELSE LET m == HandlerMessage(message_format, BlendFileName(filepath))
         IN  IF m.exc = "none" THEN [outcome |-> "started", exc |-> "none"]
             ELSE [outcome |-> "raised", exc |-> m.exc]

\* What a call of the handler prints: line 54, line 57 or line 69, where
\* str() of the KeyError is the repr of the unknown name.
HandlerPrints ==
    IF ~is_enabled THEN <<"Pushover Notifier: Disabled, notification not sent.">>
    ELSE IF ~online_access
    THEN <<"Pushover Notifier: Blender is running in offline mode.">>
    ELSE LET f == Format(message_format, BlendFileName(filepath))
         IN  IF f.exc # "none" /\ Caught(f.exc)
             THEN <<"Pushover Notifier: Error formatting message. Invalid key: '"
                      \o f.text \o "'">>
             ELSE <<>>

Subscribed == HandlerName \in {handlers[i] : i \in DOMAIN handlers}

\* One completion event delivered to the subscribed handler.  The host calls
\* the handler on its event loop, so the call is one step of the main thread
\* and does not overlap an execute that is blocked in urlopen.
render_complete_handler ==
    /\ op.pc = "idle"
    /\ Subscribed
    /\ BagCardinality(threads) < MaxInFlight
    /\ lastHandler' = HandlerOutcome
    /\ threads' =
           IF HandlerOutcome.outcome = "started"
           THEN threads (+) SetToBag({NewThread(user_key, api_token,
                    HandlerMessage(message_format, BlendFileName(filepath)).text)})
           ELSE threads
    /\ console' = Written(HandlerPrints)
    /\ UNCHANGED <<config, online_access, filepath, handlers, op>>

(***************************************************************************)
(* The background thread: the sender with the captured arguments.  The     *)
(* thread ends when the sender returns; the returned result is discarded.  *)
(***************************************************************************)

\* Mutant of Moved: a thread whose sender has returned stays alive.
Moved_Lingers(t, c) == (threads (-) SetToBag({t})) (+) SetToBag({c})

\* The bag of live threads after thread t has moved to call c.
Moved(t, c) ==
    IF c.pc = "done" THEN threads (-) SetToBag({t})
    ELSE (threads (-) SetToBag({t})) (+) SetToBag({c})

ThreadRun(t) ==
    /\ BagIn(t, threads)
    /\ t.pc = "started"
    /\ threads' = Moved(t, SendBegin(t))
    /\ console' = Written(SendBeginPrints(t))
    /\ UNCHANGED <<config, online_access, filepath, handlers, lastHandler, op>>

ThreadResolve(t, outcome) ==
    /\ BagIn(t, threads)
    /\ t.pc = "urlopen"
    /\ threads' = Moved(t, SendEnd(t, outcome))
    /\ console' = Written(SendEndPrints(t, outcome))
    /\ UNCHANGED <<config, online_access, filepath, handlers, lastHandler, op>>

(***************************************************************************)
(* PUSHOVER_OT_TestNotification, lines 108-135.  op is the latest call of  *)
(* execute: the sender's call record plus the reports made and the value   *)
(* returned.                                                               *)
(***************************************************************************)

TestMessage == "This is a test notification from the Blender Pushover Addon."

IdleOp ==
    [user_key |-> "", api_token |-> "", message |-> "", pc |-> "idle",
     calls |-> 0, outcome |-> "", result |-> NoResult, reports |-> <<>>,
     ret |-> ""]

\* Mutant of poll: the operator is always available.
poll_Always == TRUE

\* lines 115-120
poll == online_access

\* Mutant of Report: every result is reported as information.
Report_AlwaysInfo(result) ==
    [level |-> "INFO", text |-> result.msg]

\* lines 130-133
Report(result) ==
    [level |-> IF result.success THEN "INFO" ELSE "ERROR", text |-> result.msg]

\* Lines 130-135 once the sender has returned: report, then return; while
\* the sender is inside urlopen, execute is blocked with it.
AfterSend(c) ==
    IF c.pc = "done"
    THEN [user_key |-> c.user_key, api_token |-> c.api_token, message |-> c.message,
          pc |-> "idle", calls |-> c.calls, outcome |-> c.outcome,
          result |-> c.result, reports |-> <<Report(c.result)>>,
          ret |-> "FINISHED"]
    ELSE [user_key |-> c.user_key, api_token |-> c.api_token, message |-> c.message,
          pc |-> c.pc, calls |-> c.calls, outcome |-> c.outcome,
          result |-> c.result, reports |-> <<>>, ret |-> ""]

\* The sender's call record inside op.
OpCall ==
    [user_key |-> op.user_key, api_token |-> op.api_token, message |-> op.message,
     pc |-> op.pc, calls |-> op.calls, outcome |-> op.outcome,
     result |-> op.result]

\* Mutant of execute: the operator does nothing while the notifier is
\* disabled.
execute_ChecksEnabled ==
    /\ op.pc = "idle"
    /\ poll
    /\ is_enabled
    /\ op' = AfterSend(SendBegin(NewCall(user_key, api_token, TestMessage)))
    /\ console' = Written(SendBeginPrints(NewCall(user_key, api_token, TestMessage)))
    /\ UNCHANGED <<config, online_access, filepath, handlers, lastHandler, threads>>

\* The host runs the operator: it evaluates poll and calls execute (lines
\* 122-128) only when poll returned True, in the same step of the main
\* thread; execute itself does not read the network flag.
execute ==
    /\ op.pc = "idle"
    /\ poll
    /\ op' = AfterSend(SendBegin(NewCall(user_key, api_token, TestMessage)))
    /\ console' = Written(SendBeginPrints(NewCall(user_key, api_token, TestMessage)))
    /\ UNCHANGED <<config, online_access, filepath, handlers, lastHandler, threads>>

\* urlopen returns or raises on the main thread; lines 130-135 follow.
executeResolve(outcome) ==
    /\ op.pc = "urlopen"
    /\ op' = AfterSend(SendEnd(OpCall, outcome))
    /\ console' = Written(SendEndPrints(OpCall, outcome))
    /\ UNCHANGED <<config, online_access, filepath, handlers, lastHandler, threads>>

(***************************************************************************)
(* register / unregister, lines 168-180 (the handler subscription).        *)
(***************************************************************************)

\* Mutant of register: the handler is appended without the membership test
\* of line 172.
register_Unchecked ==
    /\ op.pc = "idle"
    /\ handlers' = Append(handlers, HandlerName)
    /\ UNCHANGED <<config, online_access, filepath, lastHandler, threads, op,
                   console>>

\* lines 172-173
register ==
    /\ op.pc = "idle"
    /\ handlers' = IF Subscribed THEN handlers ELSE Append(handlers, HandlerName)
    /\ UNCHANGED <<config, online_access, filepath, lastHandler, threads, op,
                   console>>

\* list.remove: drops the first occurrence.
RECURSIVE Remove(_, _)
Remove(s, x) ==
    IF s = <<>> THEN <<>>
    ELSE IF Head(s) = x THEN Tail(s)
    ELSE <<Head(s)>> \o Remove(Tail(s), x)

\* lines 176-177
unregister ==
    /\ op.pc = "idle"
    /\ handlers' = IF Subscribed THEN Remove(handlers, HandlerName) ELSE handlers
    /\ UNCHANGED <<config, online_access, filepath, lastHandler, threads, op,
                   console>>

(***************************************************************************)
(* The host and the user: settings edited in the panel (lines 80-105), the *)
(* network flag, the document saved under a name.  All of these run on the *)
(* main thread, so none happens while execute is blocked.                  *)
(***************************************************************************)

SetEnabled(b) ==
    /\ op.pc = "idle"
    /\ is_enabled' = b
    /\ UNCHANGED <<user_key, api_token, message_format, online_access, filepath,
                   handlers, lastHandler, threads, op, console>>

SetUserKey(k) ==
    /\ op.pc = "idle"
    /\ user_key' = k
    /\ UNCHANGED <<is_enabled, api_token, message_format, online_access, filepath,
                   handlers, lastHandler, threads, op, console>>

SetApiToken(a) ==
    /\ op.pc = "idle"
    /\ api_token' = a
    /\ UNCHANGED <<is_enabled, user_key, message_format, online_access, filepath,
                   handlers, lastHandler, threads, op, console>>

SetMessageFormat(t) ==
    /\ op.pc = "idle"
    /\ message_format' = t
    /\ UNCHANGED <<is_enabled, user_key, api_token, online_access, filepath,
                   handlers, lastHandler, threads, op, console>>

SetOnlineAccess(b) ==
    /\ op.pc = "idle"
    /\ online_access' = b
    /\ UNCHANGED <<config, filepath, handlers, lastHandler, threads, op,
                   console>>

SaveAs(p) ==
    /\ op.pc = "idle"
    /\ filepath' = p
    /\ UNCHANGED <<config, online_access, handlers, lastHandler, threads, op,
                   console>>

(***************************************************************************)
(* The program.                                                            *)
(***************************************************************************)

\* A new document in a freshly started host, before register() has run.
Init ==
    /\ is_enabled = TRUE
    /\ user_key = ""
    /\ api_token = ""
    /\ message_format = DefaultFormat
    /\ online_access \in BOOLEAN
    /\ filepath = <<>>
    /\ handlers = <<>>
    /\ lastHandler = [outcome |-> "none", exc |-> "none"]
    /\ threads = EmptyBag
    /\ op = IdleOp
    /\ console = NoConsole

Next ==
    \/ render_complete_handler
    \/ \E t \in BagToSet(threads) : ThreadRun(t)
    \/ \E t \in BagToSet(threads), o \in Outcomes : ThreadResolve(t, o)
    \/ execute
    \/ \E o \in Outcomes : executeResolve(o)
    \/ register
    \/ unregister
    \/ \E b \in BOOLEAN : SetEnabled(b)
    \/ \E k \in UserKeys : SetUserKey(k)
    \/ \E a \in ApiTokens : SetApiToken(a)
    \/ \E t \in Templates : SetMessageFormat(t)
    \/ \E b \in BOOLEAN : SetOnlineAccess(b)
    \/ \E p \in Filepaths : SaveAs(p)

Spec == Init /\ [][Next]_vars

(***************************************************************************)
(* The dispatcher on a wider range of templates and file paths: a document *)
(* opened with any stored settings, the add-on registered; only completion *)
(* events and the threads they start take steps, so the settings stay as   *)
(* they were when the document was opened.                                 *)
(***************************************************************************)

T_RenderDone ==
    <<"R", "e", "n", "d", "e", "r", " ", "d", "o", "n", "e", ":", " ",
      "{", "f", "i", "l", "e", "}">>

T_Twice ==
    <<"{", "f", "i", "l", "e", "}", " ", "/", " ", "{", "f", "i", "l", "e", "}">>

T_NoField == <<"r", "e", "n", "d", "e", "r", " ", "d", "o", "n", "e">>

T_Escaped == <<"{", "{", "f", "i", "l", "e", "}", "}">>

T_Index == <<"{", "f", "i", "l", "e", "[", "0", "]", "}">>

T_Bogus == <<"{", "b", "o", "g", "u", "s", "}">>

T_BogusThenBrace == <<"{", "b", "o", "g", "u", "s", "}", "{">>

T_Auto == <<"{", "}">>

T_OpenBrace == <<"{">>

T_CloseBrace == <<"d", "o", "n", "e", "}">>

T_Unclosed == <<"a", "{", "f", "i", "l", "e">>

T_Attr == <<"{", "f", "i", "l", "e", ".", "x", "}">>

T_Key == <<"{", "f", "i", "l", "e", "[", "k", "]", "}">>

T_FileThenBogus ==
    <<"{", "f", "i", "l", "e", "}", " ", "{", "b", "o", "g", "u", "s", "}">>

FormatTemplates ==
    {DefaultFormat, T_RenderDone, T_Twice, T_NoField, T_Escaped, T_Index,
     T_Bogus, T_BogusThenBrace, T_Positional, T_Auto, T_OpenBrace, T_CloseBrace,
     T_Unclosed, T_Attr, T_Key, T_FileThenBogus}

P_Relative == <<"/", "/", "s", "h", "o", "t", ".", "b", "l", "e", "n", "d">>

FormatFilepaths == {<<>>, P_Scene1, P_Relative}

InitFormat ==
    /\ is_enabled \in BOOLEAN
    /\ user_key \in UserKeys
    /\ api_token \in ApiTokens
    /\ message_format \in FormatTemplates
    /\ online_access \in BOOLEAN
    /\ filepath \in FormatFilepaths
    /\ handlers = <<HandlerName>>
    /\ lastHandler = [outcome |-> "none", exc |-> "none"]
    /\ threads = EmptyBag
    /\ op = IdleOp
    /\ console = NoConsole

NextFormat ==
    \/ render_complete_handler
    \/ \E t \in BagToSet(threads) : ThreadRun(t)
    \/ \E t \in BagToSet(threads), o \in Outcomes : ThreadResolve(t, o)

SpecFormat == InitFormat /\ [][NextFormat]_vars

(***************************************************************************)
(* The program with its threads scheduled.  A started thread is run by the *)
(* operating system without the host doing anything, and urlopen is        *)
(* assumed to return or raise in the end; nothing is assumed of the host,  *)
(* or the user.  A thread is followed by the payload it carries, so an     *)
(* event is delivered here when no live thread carries the payload that    *)
(* the event would capture.  The test operator, which runs the sender on   *)
(* the main thread and shares nothing with the threads, takes no step.     *)
(***************************************************************************)

\* What a call of the sender sends: the fields of the request of lines 28-32.
Payload(c) == <<c.user_key, c.api_token, c.message>>

\* The number of live threads in bag b that send payload p.
PayloadCount(b, p) ==
    BagCardinality([c \in {x \in BagToSet(b) : Payload(x) = p} |-> b[c]])

PayloadsOf(b) == {Payload(c) : c \in BagToSet(b)}

\* The payloads the handler can capture from the settings of Spec.
ThreadPayloads ==
    UserKeys \X ApiTokens \X
        {m.text : m \in {x \in {HandlerMessage(t, BlendFileName(p)) :
                                   t \in Templates, p \in Filepaths} :
                             x.exc = "none"}}

\* The next step of the thread that carries payload p.
ThreadStep(p) ==
    \E t \in BagToSet(threads) :
        /\ Payload(t) = p
        /\ \/ ThreadRun(t)
           \/ \E o \in Outcomes : ThreadResolve(t, o)

NextLive ==
    \/ /\ render_complete_handler
       /\ \A p \in PayloadsOf(threads') : PayloadCount(threads', p) = 1
    \/ \E t \in BagToSet(threads) : ThreadRun(t)
    \/ \E t \in BagToSet(threads), o \in Outcomes : ThreadResolve(t, o)
    \/ register
    \/ unregister
    \/ \E b \in BOOLEAN : SetEnabled(b)
    \/ \E k \in UserKeys : SetUserKey(k)
    \/ \E a \in ApiTokens : SetApiToken(a)
    \/ \E t \in Templates : SetMessageFormat(t)
    \/ \E b \in BOOLEAN : SetOnlineAccess(b)
    \/ \E p \in Filepaths : SaveAs(p)

SpecLive ==
    /\ Init
    /\ [][NextLive]_vars
    /\ \A p \in ThreadPayloads : WF_vars(ThreadStep(p))

(***************************************************************************)
(* The program with its output on stdout followed: a document opened with  *)
(* any stored settings, the add-on registered; completion events, the      *)
(* threads they start and the test operator take steps, and the host was   *)
(* started from a terminal, so each step leaves on the console the lines   *)
(* it printed.                                                             *)
(***************************************************************************)

LogUserKeys == UserKeys \cup {"uOTHER"}

LogApiTokens == ApiTokens \cup {"aOTHER"}

LogTemplates == {DefaultFormat, T_Bogus, T_Positional}

InitLog ==
    /\ is_enabled \in BOOLEAN
    /\ user_key \in LogUserKeys
    /\ api_token \in LogApiTokens
    /\ message_format \in LogTemplates
    /\ online_access \in BOOLEAN
    /\ filepath \in Filepaths
    /\ handlers = <<HandlerName>>
    /\ lastHandler = [outcome |-> "none", exc |-> "none"]
    /\ threads = EmptyBag
    /\ op = IdleOp
    /\ console = OpenConsole

NextLog ==
    \/ render_complete_handler
    \/ \E t \in BagToSet(threads) : ThreadRun(t)
    \/ \E t \in BagToSet(threads), o \in Outcomes : ThreadResolve(t, o)
    \/ execute
    \/ \E o \in Outcomes : executeResolve(o)

SpecLog == InitLog /\ [][NextLog]_vars

(***************************************************************************)
(* Properties.                                                             *)
(***************************************************************************)

\* A completion event is handled with the notifier enabled and the network
\* available.
EligibleEvent == render_complete_handler /\ is_enabled /\ online_access

\* C1: with the notifier enabled and the network available, no template,
\* malformed ones included, makes the handler raise to the host; on a
\* template that format() rejects the message sent is the fixed fallback
\* and the send is still started.
C1_MalformedTemplateFallsBack ==
    /\ lastHandler.outcome # "raised"
    /\ (/\ lastHandler.outcome = "started"
        /\ Format(message_format, BlendFileName(filepath)).exc # "none")
       => \A t \in BagToSet(threads) :
              t.message = FallbackMessage(BlendFileName(filepath))

\* C2: every completion event handled with the notifier enabled and the
\* network available starts exactly one background send, whatever sends are
\* still in flight.
C2_OneSendPerEligibleEvent ==
    [][EligibleEvent => BagCardinality(threads') = BagCardinality(threads) + 1]_vars

\* C3: the handler returns to the host in the step that starts the thread:
\* the main thread is free, the new thread has yet to run the sender (no
\* request made, no result), and no thread already in flight had to resolve.
C3_ReturnsBeforeSendResolves ==
    [][render_complete_handler =>
        /\ op'.pc = "idle"
        /\ \A c \in BagToSet(threads) : CopiesIn(c, threads') >= CopiesIn(c, threads)
        /\ \A c \in BagToSet(threads') :
               CopiesIn(c, threads') > CopiesIn(c, threads)
                   => c.pc = "started" /\ c.calls = 0 /\ c.result = NoResult]_vars

\* The handler has returned, the main thread is free, and the request of a
\* thread it started is still unresolved inside urlopen.
C3_Witness ==
    /\ lastHandler.outcome = "started"
    /\ op.pc = "idle"
    /\ \E t \in BagToSet(threads) : t.pc = "urlopen"

\* C4: a completion event handled while is_enabled is false starts no
\* thread and makes no network call, whatever the other settings are.
C4_DisabledStartsNothing ==
    [][(render_complete_handler /\ ~is_enabled) => threads' = threads]_vars

\* An event was handled with the notifier disabled although the network was
\* available and both credentials were set.
C4_Witness ==
    /\ lastHandler.outcome = "disabled"
    /\ ~is_enabled
    /\ online_access
    /\ user_key # ""
    /\ api_token # ""

\* C5: a completion event handled while the host reports network access
\* disabled starts no thread, even with the notifier enabled and the
\* credentials set.
C5_OfflineStartsNothing ==
    [][(render_complete_handler /\ ~online_access) => threads' = threads]_vars

\* An event was handled offline with the notifier enabled and both
\* credentials set.
C5_Witness ==
    /\ lastHandler.outcome = "offline"
    /\ is_enabled
    /\ ~online_access
    /\ user_key # ""
    /\ api_token # ""

\* C6: a call of the sender with an empty user key or an empty token returns
\* Failure("User Key or API Token not set.") and hands no request to
\* urlopen: on the main thread the returned result says so, and a thread
\* with such arguments never gets past the credential check.
C6_MissingCredentials ==
    /\ (op.ret = "FINISHED" /\ (op.user_key = "" \/ op.api_token = ""))
       => /\ op.result = [success |-> FALSE, msg |-> "User Key or API Token not set."]
          /\ op.calls = 0
          /\ op.outcome = ""
    /\ \A t \in BagToSet(threads) :
           (t.user_key = "" \/ t.api_token = "") => t.pc = "started" /\ t.calls = 0

\* The sender has returned from a call with a user key and no token.
C6_Witness ==
    /\ op.ret = "FINISHED"
    /\ op.user_key # ""
    /\ op.api_token = ""

\* C7: with both credentials set, whatever urlopen does becomes the returned
\* result: Success("Notification sent successfully!") when it returns,
\* Failure("Failed to send notification. Error: " + description) when it
\* raises; the caller always gets a result.
C7_TransportOutcomeMapped ==
    (op.ret = "FINISHED" /\ op.user_key # "" /\ op.api_token # "")
    => /\ op.outcome \in Outcomes
       /\ op.calls = 1
       /\ op.outcome = "ok"
          => op.result = [success |-> TRUE, msg |-> "Notification sent successfully!"]
       /\ op.outcome # "ok"
          => op.result = [success |-> FALSE,
                          msg |-> "Failed to send notification. Error: " \o op.outcome]

\* The sender has returned after urlopen raised.
C7_Witness ==
    /\ op.ret = "FINISHED"
    /\ op.outcome = "HTTP Error 400: Bad Request"
    /\ ~op.result.success

\* C8: execute reports nothing and does not return while its send is inside
\* urlopen; when it has returned FINISHED the send has resolved and exactly
\* one report was made, with the sender's message as its text and the level
\* INFO for Success, ERROR for Failure.
C8_TestReportsResult ==
    /\ op.pc = "urlopen" => op.reports = <<>> /\ op.ret = "" /\ op.result = NoResult
    /\ op.ret = "" => op.reports = <<>>
    /\ op.ret = "FINISHED"
       => /\ op.pc = "idle"
          /\ op.result # NoResult
          /\ Len(op.reports) = 1
          /\ op.reports[1].text = op.result.msg
          /\ op.reports[1].level = (IF op.result.success THEN "INFO" ELSE "ERROR")

\* execute has returned after a failed send, which it reported as an error.
C8_Witness ==
    /\ op.ret = "FINISHED"
    /\ op.outcome = "<urlopen error timed out>"
    /\ op.reports = <<[level |-> "ERROR",
                       text |-> "Failed to send notification. Error: <urlopen error timed out>"]>>

FilePlaceholder == <<"{", "f", "i", "l", "e", "}">>

PlaceholderAt(t, i) ==
    /\ i + Len(FilePlaceholder) - 1 <= Len(t)
    /\ SubSeq(t, i, i + Len(FilePlaceholder) - 1) = FilePlaceholder

\* No brace in t from position i on, other than in occurrences of {file}.
RECURSIVE OnlyFilePlaceholders(_, _)
OnlyFilePlaceholders(t, i) ==
    IF i > Len(t) THEN TRUE
    ELSE IF PlaceholderAt(t, i) THEN OnlyFilePlaceholders(t, i + Len(FilePlaceholder))
    ELSE t[i] \notin {"{", "}"} /\ OnlyFilePlaceholders(t, i + 1)

\* t from position i on, with every occurrence of {file} replaced by name.
RECURSIVE Substituted(_, _, _)
Substituted(t, i, name) ==
    IF i > Len(t) THEN ""
    ELSE IF PlaceholderAt(t, i)
    THEN name \o Substituted(t, i + Len(FilePlaceholder), name)
    ELSE t[i] \o Substituted(t, i + 1, name)

\* The file name of the document at each path of FormatFilepaths.
DocumentName ==
    CASE filepath = <<>> -> "Unsaved File"
      [] filepath = P_Scene1 -> "scene1.blend"
      [] filepath = P_Relative -> "shot.blend"

\* C10: for a template whose only placeholder is {file}, the message handed
\* to the sender is the template with {file} replaced by the document's file
\* name, "Unsaved File" for a document never saved; "Render done: {file}"
\* and scene1.blend give exactly "Render done: scene1.blend".
C10_MessageIsTemplateWithFileName ==
    \A t \in BagToSet(threads) :
        /\ OnlyFilePlaceholders(message_format, 1)
           => t.message = Substituted(message_format, 1, DocumentName)
        /\ (message_format = T_RenderDone /\ filepath = P_Scene1)
           => t.message = "Render done: scene1.blend"
        /\ (message_format = T_RenderDone /\ filepath = <<>>)
           => t.message = "Render done: Unsaved File"

\* A thread holds the message of "Render done: {file}" for scene1.blend.
C10_Witness ==
    /\ message_format = T_RenderDone
    /\ filepath = P_Scene1
    /\ \E t \in BagToSet(threads) : t.message = "Render done: scene1.blend"

\* Templates whose first rejected field is a placeholder with a name other
\* than file.
UnknownNameTemplates == {T_Bogus, T_BogusThenBrace, T_FileThenBogus}

\* C11: on a template that references a name other than file the handler
\* does not raise to the host; an event handled enabled and online starts
\* the send, and the message sent is "Blender render finished for: <file
\* name> (Message format error)" with the document's file name, "Unsaved
\* File" for a document never saved.
C11_UnknownNameFallsBack ==
    message_format \in UnknownNameTemplates
    => /\ lastHandler.outcome # "raised"
       /\ (lastHandler.outcome # "none" /\ is_enabled /\ online_access)
          => lastHandler.outcome = "started"
       /\ \A t \in BagToSet(threads) :
              t.message = "Blender render finished for: " \o DocumentName
                              \o " (Message format error)"

\* A thread holds the fallback for "{bogus}" on a document never saved.
C11_Witness ==
    /\ message_format = T_Bogus
    /\ filepath = <<>>
    /\ lastHandler.outcome = "started"
    /\ \E t \in BagToSet(threads) :
           t.message = "Blender render finished for: Unsaved File (Message format error)"

\* C12: a thread sends the credentials and the message captured by the
\* handler call that started it.  No step gives a live thread another
\* payload: a handler call adds at most one thread, holding the settings of
\* that moment, and leaves the others alone; a step of a thread keeps its
\* payload or ends it; a change of a setting, of the file name or of the
\* network flag, a test send and a (un)registration leave every thread as
\* it is.
C12_ThreadSendsWhatWasCaptured ==
    [][/\ \A p \in PayloadsOf(threads) \cup PayloadsOf(threads') :
              PayloadCount(threads', p) <=
                  PayloadCount(threads, p)
                  + (IF /\ render_complete_handler
                        /\ p[1] = user_key
                        /\ p[2] = api_token
                        /\ p[3] = HandlerMessage(message_format,
                                                 BlendFileName(filepath)).text
                     THEN 1 ELSE 0)
       /\ BagCardinality(threads') <= BagCardinality(threads) + 1
       /\ (\/ config' # config
           \/ filepath' # filepath
           \/ online_access' # online_access
           \/ handlers' # handlers
           \/ op' # op) => threads' = threads]_vars

\* A request in flight still carries the credentials and the message of the
\* moment its event was handled, after the key, the token, the template,
\* the file name and the enablement flag have all been changed and another
\* event has started a second thread.
C12_Witness ==
    /\ ~is_enabled
    /\ user_key = ""
    /\ api_token = ""
    /\ message_format = T_Positional
    /\ filepath = <<>>
    /\ BagCardinality(threads) = 2
    /\ \E t \in BagToSet(threads) :
           /\ t.pc = "urlopen"
           /\ t.user_key = "uKEY"
           /\ t.api_token = "aTOKEN"
           /\ t.message = "Blender render finished for: scene1.blend"

\* C13: every thread the handler started ends by itself.  While a thread is
\* alive its sender has not returned; and with the threads scheduled and
\* urlopen resolving in the end, a live thread with payload p leads to no
\* live thread with payload p, whatever the host and the user do or fail
\* to do in the meantime.
C13_ThreadTerminates ==
    /\ [](\A t \in BagToSet(threads) : t.pc \in {"started", "urlopen"})
    /\ \A p \in ThreadPayloads :
           (PayloadCount(threads, p) > 0) ~> (PayloadCount(threads, p) = 0)

\* Two threads are alive, one inside urlopen and one not yet run, after the
\* add-on was unregistered, the notifier disabled and the network switched
\* off: the host will start nothing more and the threads are on their own.
C13_Witness ==
    /\ ~Subscribed
    /\ ~is_enabled
    /\ ~online_access
    /\ BagCardinality(threads) = 2
    /\ \E t \in BagToSet(threads) : t.pc = "urlopen"
    /\ \E t \in BagToSet(threads) : t.pc = "started"

\* The requests handed to urlopen by the threads in S, a set of records of
\* bag b.
RECURSIVE SumCalls(_, _)
SumCalls(b, S) ==
    IF S = {} THEN 0
    ELSE LET c == CHOOSE x \in S : TRUE
         IN  c.calls * b[c] + SumCalls(b, S \ {c})

\* Requests issued by the calls of the sender on record: the latest test
\* send and the live threads.
Requests == op.calls + SumCalls(threads, BagToSet(threads))

\* The calls of the sender on record.
Invocations ==
    (IF op.pc = "idle" /\ op.ret = "" THEN 0 ELSE 1) + BagCardinality(threads)

\* C14: a call of the sender hands at most one request to urlopen, and none
\* again after the request failed: a test send that ended in a transport
\* error made exactly one request, a thread holds at most one, and the
\* requests issued never outnumber the calls of the sender.
C14_NoRetry ==
    /\ op.calls <= 1
    /\ (op.ret = "FINISHED" /\ op.outcome \in TransportErrors) => op.calls = 1
    /\ \A t \in BagToSet(threads) : t.calls = (IF t.pc = "urlopen" THEN 1 ELSE 0)
    /\ Requests <= Invocations

\* A test send has failed in urlopen and returned, and two threads have
\* each a request in flight.
C14_Witness ==
    /\ op.ret = "FINISHED"
    /\ op.outcome \in TransportErrors
    /\ ~op.result.success
    /\ Requests = 3
    /\ Invocations = 3

\* C15: whatever calls of register and unregister were made, the handler is
\* in the host's list at most once; a call of unregister leaves it out of
\* the list; and while it is not in the list no step starts a thread.
C15_RegistrationIdempotent ==
    [][/\ Cardinality({i \in DOMAIN handlers' : handlers'[i] = HandlerName}) <= 1
       /\ unregister => handlers' = <<>>
       /\ ~Subscribed => BagCardinality(threads') <= BagCardinality(threads)]_vars

\* The add-on has been unregistered after its handler started a thread,
\* which is still alive.
C15_Witness ==
    /\ handlers = <<>>
    /\ lastHandler.outcome = "started"
    /\ threads # EmptyBag

\* C16: only the test operator reports to the user.  op.reports changes in
\* steps of execute alone; a step of the handler or of a thread leaves the
\* operator's record as it is, and what a thread's send came to is printed
\* on stdout by the step that ends it: the refusal for missing credentials,
\* the success line, or the failure with the error's description.
C16_ReportsOnlyFromTestTrigger ==
    [][/\ op'.reports # op.reports => (execute \/ \E o \in Outcomes : executeResolve(o))
       /\ (\/ render_complete_handler
           \/ \E t \in BagToSet(threads) : ThreadRun(t)
           \/ \E t \in BagToSet(threads), o \in Outcomes : ThreadResolve(t, o))
          => op' = op
       /\ \A t \in BagToSet(threads) :
              (ThreadRun(t) /\ (t.user_key = "" \/ t.api_token = ""))
              => console'.lines = <<"Pushover Notifier: User Key or API Token not set.">>
       /\ \A t \in BagToSet(threads) :
              ThreadResolve(t, "ok")
              => console'.lines = <<"Pushover Notifier: Notification sent successfully.">>
       /\ \A t \in BagToSet(threads), e \in TransportErrors :
              ThreadResolve(t, e)
              => console'.lines =
                     <<"Pushover Notifier: Failed to send notification. Error: " \o e>>]_vars

\* The send of a thread has just failed: the failure is on the console, and
\* the test operator, never run, has reported nothing.
C16_Witness ==
    /\ lastHandler.outcome = "started"
    /\ op = IdleOp
    /\ console.lines =
           <<"Pushover Notifier: Failed to send notification. Error: HTTP Error 400: Bad Request">>

\* Every line the add-on can print when no credential is shown: the fixed
\* lines, the failure line with the transport's description, and the
\* template error with the unknown name.
CredentialFreeLines ==
    {"Pushover Notifier: User Key or API Token not set.",
     "Pushover Notifier: Notification sent successfully.",
     "Pushover Notifier: Disabled, notification not sent.",
     "Pushover Notifier: Blender is running in offline mode.",
     "Pushover Notifier: Error formatting message. Invalid key: 'bogus'"}
    \cup {"Pushover Notifier: Failed to send notification. Error: " \o e :
              e \in TransportErrors}

\* Call c with each credential that is set replaced by another value.
WithCredentials(c, u, a) ==
    [c EXCEPT !.user_key = IF c.user_key = "" THEN "" ELSE u,
              !.api_token = IF c.api_token = "" THEN "" ELSE a]

\* C17: no line on stdout shows a credential: every printed line is one of
\* the lines above; and for every call of the sender on record, the same
\* call with other non-empty credentials prints the same lines, at the
\* credential check and for each outcome of urlopen.
C17_CredentialsNotLogged ==
    /\ \A i \in DOMAIN console.lines : console.lines[i] \in CredentialFreeLines
    /\ \A c \in BagToSet(threads) \cup {OpCall} :
           \A u \in LogUserKeys \ {""}, a \in LogApiTokens \ {""} :
               /\ SendBeginPrints(WithCredentials(c, u, a)) = SendBeginPrints(c)
               /\ \A o \in Outcomes :
                      SendEndPrints(WithCredentials(c, u, a), o) = SendEndPrints(c, o)

\* A test send with a user key and no token has been refused, and the line
\* about it is on the console.
C17_Witness ==
    /\ op.ret = "FINISHED"
    /\ op.user_key = "uOTHER"
    /\ op.api_token = ""
    /\ console.lines = <<"Pushover Notifier: User Key or API Token not set.">>

\* C18: the handler hands off without looking at the credentials.  An event
\* handled enabled and online with an empty user key or an empty token
\* starts exactly one thread, holding those credentials; and when a thread
\* with an empty credential runs, it ends in that step, its sender
\* returning Failure("User Key or API Token not set.") with no request
\* handed to urlopen.
C18_MissingCredentialsStillHandedOff ==
    [][/\ (EligibleEvent /\ (user_key = "" \/ api_token = ""))
          => /\ BagCardinality(threads') = BagCardinality(threads) + 1
             /\ \E t \in BagToSet(threads') :
                    /\ CopiesIn(t, threads') = CopiesIn(t, threads) + 1
                    /\ t.user_key = user_key
                    /\ t.api_token = api_token
                    /\ t.pc = "started"
       /\ \A t \in BagToSet(threads) :
              (ThreadRun(t) /\ (t.user_key = "" \/ t.api_token = ""))
              => /\ threads' = threads (-) SetToBag({t})
                 /\ SendBegin(t).result =
                        [success |-> FALSE, msg |-> "User Key or API Token not set."]
                 /\ SendBegin(t).calls = 0]_vars

\* C19: the test operator looks at neither is_enabled nor the template.  It
\* can be run whenever the main thread is free and the network available;
\* run, it calls the sender with the fixed test message and the credentials
\* of that moment, handing the request to urlopen when both are set; and a
\* test send fails only for a missing credential or an error of the
\* transport.
C19_TestIgnoresEnabledAndTemplate ==
    [][/\ (ENABLED execute) <=> (op.pc = "idle" /\ online_access)
       /\ execute
          => /\ op'.message = "This is a test notification from the Blender Pushover Addon."
             /\ op'.user_key = user_key
             /\ op'.api_token = api_token
             /\ (user_key # "" /\ api_token # "") => (op'.pc = "urlopen" /\ op'.calls = 1)
       /\ (op'.ret = "FINISHED" /\ ~op'.result.success)
          => \/ op'.user_key = ""
             \/ op'.api_token = ""
             \/ op'.outcome \in TransportErrors]_vars

\* A test send is inside urlopen, started with the notifier disabled and a
\* template that format() rejects.
C19_Witness ==
    /\ op.pc = "urlopen"
    /\ op.message = TestMessage
    /\ ~is_enabled
    /\ message_format = T_Positional

====
